---------------------------- MODULE Spec2Model ----------------------------
(***************************************************************************)
(* Model of exec/vcfToMatrix.py: the SNV clustering pipeline of main()     *)
(* (quality filter, proportion distance matrix, Ward clustering, cluster   *)
(* membership, parallel bootstrap, bootstrap support, cluster collapsing). *)
(*                                                                         *)
(* Conventions.  Python lists and numpy axes are 0-based: a list that the  *)
(* code indexes is a function with domain 0..n-1; a member list (a sorted  *)
(* list of sample indices) is a TLA+ sequence, so list[0] is Head.         *)
(* A float that the code computes as a quotient of integers is kept as the *)
(* exact fraction [num, den]; comparisons cross-multiply.                  *)
(***************************************************************************)
EXTENDS Integers, Sequences, FiniteSets, TLC

VARIABLES
    pc,                 \* position of main() (or of the function under study);
                        \* "exit" is sys.exit, "error_x" an exception raised in x
    args,               \* the parsed command line (lines 13-60)
    genotype_matrix,    \* locus x sample genotype codes (line 132)
    samples,            \* the sample list; after filtering, the kept ones
    differences,        \* locus x sample x sample tensor (lines 140-144)
    prop_diff_matrix,   \* main's prop_diff_matrix (line 71)
    hclust_out,         \* main's hclust_out: the merge records of linkage
    original_clusters,  \* main's original_clusters (MembershipTable)
    pool,               \* the multiprocessing.Pool of get_bootstrap_cluster_members
    bootstrap_clusters, \* main's bootstrap_clusters
    bootstrap_values,   \* main's bootstrap_values (SupportVector)
    collapsed_clusters, \* main's collapsed_clusters
    top_lvl_clusters,   \* main's top_lvl_clusters
    figure_saved        \* whether plot.savefig has written the figure

vars == <<pc, args, genotype_matrix, samples, differences, prop_diff_matrix,
          hclust_out, original_clusters, pool, bootstrap_clusters,
          bootstrap_values, collapsed_clusters, top_lvl_clusters,
          figure_saved>>

(***************************************************************************)
(* Bounds of the model.                                                    *)
(***************************************************************************)
MaxNonRef == 2          \* genotype calls that are not 0/0 (alt or missing)
MaxBootstrap == 2       \* --n_bootstrap
MaxProcesses == 2       \* --processes
MaxLeaves == 4          \* samples of a merge tree given to the pure functions
SupportDen == 2         \* support values k/SupportDen given to the pure functions

(***************************************************************************)
(* Program constants.                                                      *)
(***************************************************************************)
NaN == -1               \* np.nan of dist_key_dict
NONE == -2              \* the 'none' key of parent_dict
FORK == -3              \* the 'fork' verdict of parent_dict
DefaultMinSnvs == 1000  \* --min_snvs_for_cluster default

Frac(n, d) == [num |-> n, den |-> d]
DefaultMaxPropMissing == Frac(9, 10)     \* --max_prop_missing default 0.9
DefaultThreshold == Frac(99, 100)        \* --bootstrap_threshold default 0.99

\* a >= b and a <= b on exact fractions with positive denominators
FracGe(a, b) == a.num * b.den >= b.num * a.den
FracLe(a, b) == a.num * b.den <= b.num * a.den

(***************************************************************************)
(* List helpers.                                                           *)
(***************************************************************************)
Size(f) == Cardinality(DOMAIN f)

Range(s) == {s[i] : i \in DOMAIN s}

Min(S) == CHOOSE x \in S : \A y \in S : x <= y

RECURSIVE SortedSeqOf(_)
\* the ascending sequence of a finite set of integers
SortedSeqOf(S) ==
    IF S = {} THEN <<>> ELSE <<Min(S)>> \o SortedSeqOf(S \ {Min(S)})

\* a 0-based list from a sequence
ZeroBased(s) == [i \in 0..(Len(s) - 1) |-> s[i + 1]]

RECURSIVE InsertSorted(_, _)
InsertSorted(x, s) ==
    IF s = <<>> THEN <<x>>
    ELSE IF x <= Head(s) THEN <<x>> \o s
    ELSE <<Head(s)>> \o InsertSorted(x, Tail(s))

RECURSIVE ListSort(_)
\* list.sort() on a list of integers: duplicates are kept
ListSort(s) == IF s = <<>> THEN <<>> ELSE InsertSorted(Head(s), ListSort(Tail(s)))

(***************************************************************************)
(* get_diff_matrix_from_bcf, filter_diff_matrix                            *)
(***************************************************************************)
\* lines 138-139: loci whose fraction of missing calls is <= max_prop_missing
KeptLoci(gm, n_samples, max_prop_missing) ==
    SortedSeqOf({l \in DOMAIN gm :
        FracLe(Frac(Cardinality({s \in DOMAIN gm[l] : gm[l][s] = NaN}), n_samples),
               max_prop_missing)})

AbsDiff(a, b) == IF a = NaN \/ b = NaN THEN NaN ELSE IF a >= b THEN a - b ELSE b - a

\* lines 140-141: |g[:, :, newaxis] - g[:, newaxis, :]|, NaN where either is NaN
DiffTensor(gm, n_samples) ==
    [l \in DOMAIN gm |->
        [i \in 0..(n_samples - 1) |->
            [j \in 0..(n_samples - 1) |-> AbsDiff(gm[l][i], gm[l][j])]]]

filter_diff_matrix(diffs, smpls, min_snvs_for_cluster) ==
    LET n_snps_per_sample ==
            [i \in DOMAIN smpls |->
                Cardinality({l \in DOMAIN diffs : diffs[l][i][i] # NaN})]
        samples_to_keep ==
            SortedSeqOf({i \in DOMAIN smpls :
                            n_snps_per_sample[i] >= min_snvs_for_cluster})
        k == Len(samples_to_keep)
    IN  [samples |-> [i \in 0..(k - 1) |-> smpls[samples_to_keep[i + 1]]],
         differences |->
            [l \in DOMAIN diffs |->
                [i \in 0..(k - 1) |->
                    [j \in 0..(k - 1) |->
                        diffs[l][samples_to_keep[i + 1]][samples_to_keep[j + 1]]]]]]

get_diff_matrix_from_bcf(gm, smpls, min_snvs_for_cluster, max_prop_missing) ==
    LET kept == KeptLoci(gm, Size(smpls), max_prop_missing)
        gm2 == [l \in 0..(Len(kept) - 1) |-> gm[kept[l + 1]]]
        f == filter_diff_matrix(DiffTensor(gm2, Size(smpls)), smpls,
                                min_snvs_for_cluster)
    IN  [exit |-> Size(f.samples) = 0,      \* differences.shape[1] == 0
         differences |-> f.differences,
         samples |-> f.samples]

(***************************************************************************)
(* calc_proportion_dist_matrix                                             *)
(***************************************************************************)
RECURSIVE SumOver(_, _)
\* the sum of f over a finite set of indices
SumOver(f, S) ==
    IF S = {} THEN 0
    ELSE LET x == CHOOSE y \in S : TRUE IN f[x] + SumOver(f, S \ {x})

\* differences[idx]: the tensor whose locus k is locus idx[k] of diffs
Resample(diffs, idx) == [k \in DOMAIN idx |-> diffs[idx[k]]]

\* lines 172-177.  An entry is [sum, n]: the value sum / (2 n), which numpy
\* evaluates to nan (0/0, no exception) when n = 0.
ProportionMatrix(diffs, n_samples) ==
    [i \in 0..(n_samples - 1) |->
        [j \in 0..(n_samples - 1) |->
            LET valid == {l \in DOMAIN diffs : diffs[l][i][j] # NaN}
            IN  [sum |-> SumOver([l \in valid |-> diffs[l][i][j]], valid),
                 n |-> Cardinality(valid)]]]

IsUndefined(entry) == entry.n = 0

HasUndefined(matrix) ==
    \E i \in DOMAIN matrix : \E j \in DOMAIN matrix[i] : IsUndefined(matrix[i][j])

(***************************************************************************)
(* hierarchical_clustering.  squareform and linkage are scipy's: squareform *)
(* rejects a matrix that is not symmetric (a nan never equals itself) and   *)
(* linkage rejects an empty or non-finite condensed matrix, each with a     *)
(* ValueError; otherwise linkage(method='ward') merges, S-1 times, the two  *)
(* clusters at the least Ward distance.  The Ward distance of two clusters  *)
(* is the closed form of the Lance-Williams recurrence on squared           *)
(* distances; a tie goes to the pair with the smallest ids.                 *)
(***************************************************************************)
RECURSIVE Factorial(_)
Factorial(n) == IF n <= 1 THEN 1 ELSE n * Factorial(n - 1)

\* the squared distance (sum / 2n)^2 of an entry, times (2 * n_loci!)^2
SquaredDist(entry, n_loci) ==
    LET v == entry.sum * (Factorial(n_loci) \div entry.n) IN v * v

\* the sum of q over the pairs of A x B; q is a tuple of rows, sample x being
\* row x + 1
CrossSum(q, A, B) ==
    LET pairs == A \X B
    IN  SumOver([p \in pairs |-> q[p[1] + 1][p[2] + 1]], pairs)

\* Ward's squared distance of clusters A and B as a fraction
WardDist(q, A, B) ==
    LET a == Cardinality(A)
        b == Cardinality(B)
    IN  Frac(2 * a * b * CrossSum(q, A, B) - b * b * CrossSum(q, A, A)
                 - a * a * CrossSum(q, B, B),
             a * b * (a + b))

FracLt(x, y) == x.num * y.den < y.num * x.den

PairBefore(p, r) == p[1] < r[1] \/ (p[1] = r[1] /\ p[2] <= r[2])

RECURSIVE ClosestPair(_, _, _)
\* the pair of `pairs` at the least Ward distance, the first of them in a tie
ClosestPair(q, members, pairs) ==
    LET first == CHOOSE p \in pairs : \A r \in pairs : PairBefore(p, r)
        mine == [pair |-> first,
                 dist |-> WardDist(q, members[first[1] + 1], members[first[2] + 1])]
    IN  IF pairs = {first} THEN mine
        ELSE LET rest == ClosestPair(q, members, pairs \ {first})
             IN  IF FracLt(rest.dist, mine.dist) THEN rest ELSE mine

RECURSIVE WardMerge(_, _, _, _)
\* members is the tuple of the member sets, cluster id x at position x + 1
WardMerge(q, active, members, Z) ==
    IF Cardinality(active) <= 1 THEN Z
    ELSE
        LET best == ClosestPair(q, members,
                                {p \in active \X active : p[1] < p[2]}).pair
            new_id == Len(members)
        IN  WardMerge(q,
                      (active \ {best[1], best[2]}) \cup {new_id},
                      Append(members,
                             members[best[1] + 1] \cup members[best[2] + 1]),
                      Append(Z, best))

RECURSIVE Tabulate(_, _, _)
\* the tuple <<f[i], ..., f[n - 1]>> of a 0-based list
Tabulate(f, i, n) == IF i >= n THEN <<>> ELSE <<f[i]>> \o Tabulate(f, i + 1, n)

linkage(matrix, n_loci) ==
    LET n == Size(matrix)
        q == Tabulate([i \in 0..(n - 1) |->
                          Tabulate([j \in 0..(n - 1) |->
                                       SquaredDist(matrix[i][j], n_loci)], 0, n)],
                      0, n)
    IN  ZeroBased(WardMerge(q, 0..(n - 1),
                            Tabulate([i \in 0..(n - 1) |-> {i}], 0, n), <<>>))

\* Z is the merge tree: row i is the pair of ids merged into id n + i
hierarchical_clustering(matrix, n_loci) ==
    IF Size(matrix) < 2 \/ HasUndefined(matrix)
    THEN [raised |-> TRUE, Z |-> <<>>]
    ELSE [raised |-> FALSE, Z |-> linkage(matrix, n_loci)]

(***************************************************************************)
(* get_cluster_members                                                     *)
(***************************************************************************)
ListAppend(list, x) ==
    [i \in 0..Size(list) |-> IF i < Size(list) THEN list[i] ELSE x]

\* lines 188-193: one pass of the loop over the merge records
\* variant of MergedMembers that leaves out the sort of line 192
MergedMembers_unsorted(cluster_members_by_id, cluster_ids) ==
    cluster_members_by_id[cluster_ids[1]] \o cluster_members_by_id[cluster_ids[2]]

MergedMembers(cluster_members_by_id, cluster_ids) ==
    ListSort(cluster_members_by_id[cluster_ids[1]]
                 \o cluster_members_by_id[cluster_ids[2]])

RECURSIVE ClusterMembersLoop(_, _, _)
ClusterMembersLoop(hclust, i, cluster_members_by_id) ==
    IF i >= Size(hclust) THEN cluster_members_by_id
    ELSE ClusterMembersLoop(hclust, i + 1,
            ListAppend(cluster_members_by_id,
                       MergedMembers(cluster_members_by_id, hclust[i])))

get_cluster_members(hclust, n_samples) ==
    ClusterMembersLoop(hclust, 0, [x \in 0..(n_samples - 1) |-> <<x>>])

(***************************************************************************)
(* bootstrap_worker, get_one_bootstrap_cluster_members.  numpy's global    *)
(* generator is a deterministic function of its state; it is modelled by a *)
(* small linear congruential generator over RngStates.                     *)
(***************************************************************************)
RngStates == 0..3

RngAdvance(state) == (state + 3) % 4

\* np.random.seed(rand_seed)
RngSeed(rand_seed) == rand_seed % 4

RECURSIVE RngChoice(_, _, _)
\* np.random.choice(n, size = k, replace = True) from `state`:
\* the indices drawn and the state left behind
RngChoice(state, n, k) ==
    IF k = 0 THEN [idx |-> <<>>, state |-> state]
    ELSE LET s1 == RngAdvance(state)
             rest == RngChoice(s1, n, k - 1)
         IN  [idx |-> <<(s1 \div 2) % n>> \o rest.idx, state |-> rest.state]

\* lines 209-213 with calc_proportion_dist_matrix(differences, True), run in
\* a process whose generator is in `state`
get_one_bootstrap_cluster_members(diffs, n_samples, state) ==
    LET n_loci == Size(diffs)
        draw == RngChoice(state, n_loci, n_loci)
        resampled == Resample(diffs, ZeroBased(draw.idx))
        bootstrap_z == hierarchical_clustering(
                           ProportionMatrix(resampled, n_samples), n_loci)
    IN  [raised |-> bootstrap_z.raised,
         clusters |-> IF bootstrap_z.raised THEN <<>>
                      ELSE get_cluster_members(bootstrap_z.Z, n_samples),
         state |-> draw.state]

\* variant of bootstrap_worker that leaves out the seeding of line 197
bootstrap_worker_unseeded(rand_seed, diffs, n_samples, state) ==
    get_one_bootstrap_cluster_members(diffs, n_samples, state)

\* lines 196-198: the generator state the process had before is `state`
bootstrap_worker(rand_seed, diffs, n_samples, state) ==
    get_one_bootstrap_cluster_members(diffs, n_samples, RngSeed(rand_seed))

(***************************************************************************)
(* calculate_bootstrap_values                                              *)
(***************************************************************************)
\* `cluster in true_clusters`
InList(x, list) == \E i \in DOMAIN list : list[i] = x

\* true_clusters.index(cluster): the first position holding an equal list
IndexOf(x, list) == Min({i \in DOMAIN list : list[i] = x})

\* variant of IsScored that leaves out `len(cluster) > 1` of line 221
IsScored_any_length(cluster, true_clusters) == InList(cluster, true_clusters)

\* variant of IsScored with `len(cluster) > 2` for the `len(cluster) > 1` of line 221
IsScored_longer_than_pair(cluster, true_clusters) ==
    InList(cluster, true_clusters) /\ Len(cluster) > 2

\* line 221
IsScored(cluster, true_clusters) == InList(cluster, true_clusters) /\ Len(cluster) > 1

RECURSIVE CountOneBootstrap(_, _, _, _)
\* lines 219-222: the inner loop over the clusters of one replicate
CountOneBootstrap(true_clusters, one_bootstrap, j, counts) ==
    IF j >= Size(one_bootstrap) THEN counts
    ELSE
        LET cluster == one_bootstrap[j]
        IN  CountOneBootstrap(true_clusters, one_bootstrap, j + 1,
                IF IsScored(cluster, true_clusters)
                THEN [counts EXCEPT ![IndexOf(cluster, true_clusters)] = @ + 1]
                ELSE counts)

RECURSIVE CountBootstraps(_, _, _, _)
CountBootstraps(true_clusters, boot_clusters, b, counts) ==
    IF b >= Size(boot_clusters) THEN counts
    ELSE CountBootstraps(true_clusters, boot_clusters, b + 1,
            CountOneBootstrap(true_clusters, boot_clusters[b], 0, counts))

\* entry i is counts[i] / len(bootstrap_clusters)
calculate_bootstrap_values(true_clusters, boot_clusters) ==
    LET counts == CountBootstraps(true_clusters, boot_clusters, 0,
                                  [i \in DOMAIN true_clusters |-> 0])
    IN  [i \in DOMAIN true_clusters |-> Frac(counts[i], Size(boot_clusters))]

(***************************************************************************)
(* collapse_clusters, find_parent_node, is_parent_a_fork                   *)
(***************************************************************************)
\* variant of find_parent_node whose search starts at node_id itself, not at
\* node_id + 1 as in line 300
find_parent_node_from_self(node_id, true_clusters) ==
    LET hits == {i \in node_id..(Size(true_clusters) - 1) :
                    Head(true_clusters[node_id]) \in Range(true_clusters[i])}
    IN  IF hits = {} THEN NONE ELSE Min(hits)

\* lines 299-303
find_parent_node(node_id, true_clusters) ==
    LET hits == {i \in (node_id + 1)..(Size(true_clusters) - 1) :
                    Head(true_clusters[node_id]) \in Range(true_clusters[i])}
    IN  IF hits = {} THEN NONE ELSE Min(hits)

\* variant of Verdict with `>` for the `>=` of line 261
Verdict_strict(parent_dict, cluster_num, true_clusters, my_bootstrap, threshold) ==
    LET parent_node == find_parent_node(cluster_num, true_clusters)
        parent_is_fork == parent_dict[parent_node] = FORK
    IN  IF parent_is_fork
        THEN IF ~FracLe(my_bootstrap, threshold) THEN FORK ELSE cluster_num
        ELSE parent_dict[parent_node]

\* variant of Verdict in which a node that meets the threshold under a fork
\* parent is the cluster, and a node that misses it is the fork
Verdict_swapped(parent_dict, cluster_num, true_clusters, my_bootstrap, threshold) ==
    LET parent_node == find_parent_node(cluster_num, true_clusters)
        parent_is_fork == parent_dict[parent_node] = FORK
    IN  IF parent_is_fork
        THEN IF FracGe(my_bootstrap, threshold) THEN cluster_num ELSE FORK
        ELSE parent_dict[parent_node]

\* variant of Verdict in which a node under a finalized boundary is judged by
\* its own support instead of inheriting the boundary's id
Verdict_own_support(parent_dict, cluster_num, true_clusters, my_bootstrap, threshold) ==
    IF FracGe(my_bootstrap, threshold) THEN FORK ELSE cluster_num

\* lines 260-266: the verdict of cluster_num, its parent being in parent_dict
Verdict(parent_dict, cluster_num, true_clusters, my_bootstrap, threshold) ==
    LET parent_node == find_parent_node(cluster_num, true_clusters)
        parent_is_fork == parent_dict[parent_node] = FORK
    IN  IF parent_is_fork
        THEN IF FracGe(my_bootstrap, threshold) THEN FORK ELSE cluster_num
        ELSE parent_dict[parent_node]

RECURSIVE CollapseLoop(_, _, _, _, _)
\* the loop of lines 255-266 from cluster_num down to 0; is_parent_a_fork
\* raises when the parent has no entry in parent_dict
CollapseLoop(true_clusters, bootstrap_vals, threshold, cluster_num, parent_dict) ==
    IF cluster_num < 0 THEN [raised |-> FALSE, parent_dict |-> parent_dict]
    ELSE IF find_parent_node(cluster_num, true_clusters) \notin DOMAIN parent_dict
    THEN [raised |-> TRUE, parent_dict |-> parent_dict]
    ELSE CollapseLoop(true_clusters, bootstrap_vals, threshold, cluster_num - 1,
            (cluster_num :> Verdict(parent_dict, cluster_num, true_clusters,
                                    bootstrap_vals[cluster_num], threshold))
                @@ parent_dict)

\* parent_dict after the loop of collapse_clusters
CollapseVerdicts(true_clusters, bootstrap_vals, threshold) ==
    CollapseLoop(true_clusters, bootstrap_vals, threshold,
                 Size(bootstrap_vals) - 1, (NONE :> FORK))

\* lines 268-270.  The order of the returned list is that of a Python set of
\* small integers; it is taken here as ascending.
collapse_clusters(true_clusters, bootstrap_vals, threshold) ==
    LET walk == CollapseVerdicts(true_clusters, bootstrap_vals, threshold)
        clusters == SortedSeqOf(Range(walk.parent_dict) \ {FORK})
    IN  [raised |-> walk.raised,
         clusters |-> IF walk.raised THEN <<>>
                      ELSE [k \in DOMAIN clusters |-> true_clusters[clusters[k]]]]

(***************************************************************************)
(* collapse_top_lvl_clusters                                               *)
(***************************************************************************)
\* scipy's cut_tree(hclust, n_clusters=2): label 0 for the samples on the
\* side of the last merge that holds sample 0, label 1 for the others
cut_tree_2(hclust) ==
    LET n == Size(hclust) + 1
        members == get_cluster_members(hclust, n)
        top == hclust[Size(hclust) - 1]
        side0 == IF 0 \in Range(members[top[1]]) THEN top[1] ELSE top[2]
    IN  [x \in 0..(n - 1) |-> IF x \in Range(members[side0]) THEN 0 ELSE 1]

\* list(compress(list(range(len(labels))), labels == value))
Compress(labels, value) == SortedSeqOf({x \in DOMAIN labels : labels[x] = value})

\* line 277
TopLvlSplits(bootstrap_vals, threshold) ==
    FracGe(bootstrap_vals[Size(bootstrap_vals) - 1], threshold)

collapse_top_lvl_clusters(hclust, bootstrap_vals, threshold) ==
    IF TopLvlSplits(bootstrap_vals, threshold)
    THEN LET split_clusters == cut_tree_2(hclust)
         IN  <<Compress(split_clusters, 0), Compress(split_clusters, 1)>>
    ELSE <<SortedSeqOf(0..(Size(bootstrap_vals) - 1))>>

(***************************************************************************)
(* main: lines 99-102                                                      *)
(***************************************************************************)
AllMembers(cluster_list) == UNION {Range(cluster_list[k]) : k \in DOMAIN cluster_list}

\* samples[x] of lines 99-100 raises IndexError for an x past the sample list
NamesRaise(cluster_list, smpls) == \E x \in AllMembers(cluster_list) : x \notin DOMAIN smpls

\* print_cluster_names raises KeyError when a sample is in one list only
PrintRaises(clusters, top_lvl) == AllMembers(clusters) # AllMembers(top_lvl)

(***************************************************************************)
(* get_bootstrap_cluster_members: multiprocessing.Pool(processes).starmap. *)
(* The pool forks `processes` workers, each a process with a generator of  *)
(* its own (a copy of the parent's); starmap cuts the N tasks into chunks  *)
(* of `chunksize`, any idle worker takes the next chunk and runs its tasks *)
(* in order, and each result is stored at its task's position.  starmap    *)
(* returns when every task is done and re-raises the exception of a task   *)
(* that raised.                                                            *)
(***************************************************************************)
\* Pool._map_async: divmod(len(iterable), len(pool) * 4), rounded up
Chunksize(n_tasks, processes) ==
    (n_tasks \div (processes * 4))
        + (IF n_tasks % (processes * 4) = 0 THEN 0 ELSE 1)

Pending == [status |-> "pending", clusters |-> <<>>]

RECURSIVE RunChunk(_, _, _, _, _, _)
\* mapstar over the tasks i..last in one worker: a task that raises ends the chunk
RunChunk(i, last, diffs, n_samples, state, results) ==
    IF i > last THEN [state |-> state, results |-> results]
    ELSE
        LET r == bootstrap_worker(i, diffs, n_samples, state)
        IN  IF r.raised
            THEN [state |-> r.state,
                  results |-> [results EXCEPT ![i] = [status |-> "raised",
                                                      clusters |-> <<>>]]]
            ELSE RunChunk(i + 1, last, diffs, n_samples, r.state,
                          [results EXCEPT ![i] = [status |-> "done",
                                                  clusters |-> r.clusters]])

\* variant of StarmapComplete that takes the results there are once no task is left
StarmapComplete_no_pending(results) ==
    \A i \in DOMAIN results : results[i].status # "pending"

\* starmap has every result
StarmapComplete(results) == \A i \in DOMAIN results : results[i].status = "done"

StarmapFailed(results) == \E i \in DOMAIN results : results[i].status = "raised"

(***************************************************************************)
(* Inputs                                                                  *)
(***************************************************************************)
NonRefCodes == {1, 2, NaN}

\* genotype matrices of n_loci x n_samples with at most MaxNonRef calls
\* other than 0/0
GenotypeMatrices(n_loci, n_samples) ==
    LET cells == (0..(n_loci - 1)) \X (0..(n_samples - 1))
        choices == {c \in SUBSET cells : Cardinality(c) <= MaxNonRef}
        assignments == UNION {[c -> NonRefCodes] : c \in choices}
    IN  {[l \in 0..(n_loci - 1) |->
            [x \in 0..(n_samples - 1) |->
                IF <<l, x>> \in DOMAIN a THEN a[<<l, x>>] ELSE 0]] :
         a \in assignments}

\* <<loci, samples>> of the BCF inputs
Shapes == {<<1, 2>>, <<2, 2>>, <<2, 3>>}

MinSnvsValues == {1, DefaultMinSnvs}

PipelineThresholds == {DefaultThreshold}

ArgSets ==
    [min_snvs_for_cluster : MinSnvsValues,
     max_prop_missing : {DefaultMaxPropMissing},
     n_bootstrap : 1..MaxBootstrap,
     bootstrap_threshold : PipelineThresholds,
     processes : 1..MaxProcesses]

NoPool == [state |-> <<>>, results |-> <<>>, next |-> 0]

(***************************************************************************)
(* main()                                                                  *)
(***************************************************************************)
Init ==
    /\ pc = "start"
    /\ args \in ArgSets
    /\ \E shape \in Shapes :
          /\ genotype_matrix \in GenotypeMatrices(shape[1], shape[2])
          /\ samples = [x \in 0..(shape[2] - 1) |-> x]
    /\ differences = <<>>
    /\ prop_diff_matrix = <<>>
    /\ hclust_out = <<>>
    /\ original_clusters = <<>>
    /\ pool = NoPool
    /\ bootstrap_clusters = <<>>
    /\ bootstrap_values = <<>>
    /\ collapsed_clusters = <<>>
    /\ top_lvl_clusters = <<>>
    /\ figure_saved = FALSE

\* lines 66-69: sys.exit when no sample is left
GetDiffMatrixFromBcf ==
    /\ pc = "start"
    /\ LET r == get_diff_matrix_from_bcf(genotype_matrix, samples,
                                         args.min_snvs_for_cluster,
                                         args.max_prop_missing)
       IN  /\ differences' = r.differences
           /\ samples' = r.samples
           /\ pc' = IF r.exit THEN "exit" ELSE "dist"
    /\ UNCHANGED <<args, genotype_matrix, prop_diff_matrix, hclust_out,
                   original_clusters, pool, bootstrap_clusters, bootstrap_values,
                   collapsed_clusters, top_lvl_clusters, figure_saved>>

\* line 71
CalcProportionDistMatrix ==
    /\ pc = "dist"
    /\ prop_diff_matrix' = ProportionMatrix(differences, Size(samples))
    /\ pc' = "hclust"
    /\ UNCHANGED <<args, genotype_matrix, samples, differences, hclust_out,
                   original_clusters, pool, bootstrap_clusters, bootstrap_values,
                   collapsed_clusters, top_lvl_clusters, figure_saved>>

\* line 73: an exception of scipy ends main
HierarchicalClustering ==
    /\ pc = "hclust"
    /\ LET r == hierarchical_clustering(prop_diff_matrix, Size(differences))
       IN  /\ hclust_out' = r.Z
           /\ pc' = IF r.raised THEN "error_hclust" ELSE "members"
    /\ UNCHANGED <<args, genotype_matrix, samples, differences, prop_diff_matrix,
                   original_clusters, pool, bootstrap_clusters, bootstrap_values,
                   collapsed_clusters, top_lvl_clusters, figure_saved>>

\* line 75
GetClusterMembers ==
    /\ pc = "members"
    /\ original_clusters' = get_cluster_members(hclust_out, Size(samples))
    /\ pc' = "bootstrap"
    /\ UNCHANGED <<args, genotype_matrix, samples, differences, prop_diff_matrix,
                   hclust_out, pool, bootstrap_clusters, bootstrap_values,
                   collapsed_clusters, top_lvl_clusters, figure_saved>>

\* line 203: the workers are forked with the generator state of the parent
PoolStart ==
    /\ pc = "bootstrap"
    /\ \E state \in RngStates :
          pool' = [state |-> [w \in 1..args.processes |-> state],
                   results |-> [i \in 0..(args.n_bootstrap - 1) |-> Pending],
                   next |-> 0]
    /\ pc' = "starmap"
    /\ UNCHANGED <<args, genotype_matrix, samples, differences, prop_diff_matrix,
                   hclust_out, original_clusters, bootstrap_clusters,
                   bootstrap_values, collapsed_clusters, top_lvl_clusters,
                   figure_saved>>

\* a worker takes the next chunk and runs bootstrap_worker on each task of it
WorkerRun(w) ==
    /\ pc = "starmap"
    /\ pool.next < args.n_bootstrap
    /\ LET size == Chunksize(args.n_bootstrap, args.processes)
           last == IF pool.next + size > args.n_bootstrap
                   THEN args.n_bootstrap - 1 ELSE pool.next + size - 1
           run == RunChunk(pool.next, last, differences, Size(samples),
                           pool.state[w], pool.results)
       IN  pool' = [state |-> [pool.state EXCEPT ![w] = run.state],
                    results |-> run.results,
                    next |-> last + 1]
    /\ UNCHANGED <<pc, args, genotype_matrix, samples, differences,
                   prop_diff_matrix, hclust_out, original_clusters,
                   bootstrap_clusters, bootstrap_values, collapsed_clusters,
                   top_lvl_clusters, figure_saved>>

\* lines 204-207: starmap returns the list of all results
StarmapReturn ==
    /\ pc = "starmap"
    /\ StarmapComplete(pool.results)
    /\ bootstrap_clusters' = [i \in DOMAIN pool.results |-> pool.results[i].clusters]
    /\ pool' = NoPool                       \* the with block terminates the pool
    /\ pc' = "values"
    /\ UNCHANGED <<args, genotype_matrix, samples, differences, prop_diff_matrix,
                   hclust_out, original_clusters, bootstrap_values,
                   collapsed_clusters, top_lvl_clusters, figure_saved>>

\* starmap re-raises the exception of a task; nothing catches it
StarmapRaise ==
    /\ pc = "starmap"
    /\ StarmapFailed(pool.results)
    /\ pc' = "error_bootstrap"
    /\ UNCHANGED <<args, genotype_matrix, samples, differences, prop_diff_matrix,
                   hclust_out, original_clusters, pool, bootstrap_clusters,
                   bootstrap_values, collapsed_clusters, top_lvl_clusters,
                   figure_saved>>

\* lines 83-84
CalculateBootstrapValues ==
    /\ pc = "values"
    /\ bootstrap_values' = calculate_bootstrap_values(original_clusters,
                                                      bootstrap_clusters)
    /\ pc' = "plot"
    /\ UNCHANGED <<args, genotype_matrix, samples, differences, prop_diff_matrix,
                   hclust_out, original_clusters, pool, bootstrap_clusters,
                   collapsed_clusters, top_lvl_clusters, figure_saved>>

\* lines 86-89
PlotDendro ==
    /\ pc = "plot"
    /\ figure_saved' = TRUE
    /\ pc' = "collapse"
    /\ UNCHANGED <<args, genotype_matrix, samples, differences, prop_diff_matrix,
                   hclust_out, original_clusters, pool, bootstrap_clusters,
                   bootstrap_values, collapsed_clusters, top_lvl_clusters>>

\* lines 91-93
CollapseClusters ==
    /\ pc = "collapse"
    /\ LET r == collapse_clusters(original_clusters, bootstrap_values,
                                  args.bootstrap_threshold)
       IN  /\ collapsed_clusters' = r.clusters
           /\ pc' = IF r.raised THEN "error_collapse" ELSE "top_lvl"
    /\ UNCHANGED <<args, genotype_matrix, samples, differences, prop_diff_matrix,
                   hclust_out, original_clusters, pool, bootstrap_clusters,
                   bootstrap_values, top_lvl_clusters, figure_saved>>

\* lines 95-97
CollapseTopLvlClusters ==
    /\ pc = "top_lvl"
    /\ top_lvl_clusters' = collapse_top_lvl_clusters(hclust_out, bootstrap_values,
                                                     args.bootstrap_threshold)
    /\ pc' = "print"
    /\ UNCHANGED <<args, genotype_matrix, samples, differences, prop_diff_matrix,
                   hclust_out, original_clusters, pool, bootstrap_clusters,
                   bootstrap_values, collapsed_clusters, figure_saved>>

\* lines 99-102
PrintClusterNames ==
    /\ pc = "print"
    /\ pc' = IF \/ NamesRaise(collapsed_clusters, samples)
                \/ NamesRaise(top_lvl_clusters, samples)
                \/ PrintRaises(collapsed_clusters, top_lvl_clusters)
             THEN "error_print" ELSE "done"
    /\ UNCHANGED <<args, genotype_matrix, samples, differences, prop_diff_matrix,
                   hclust_out, original_clusters, pool, bootstrap_clusters,
                   bootstrap_values, collapsed_clusters, top_lvl_clusters,
                   figure_saved>>

Next ==
    \/ GetDiffMatrixFromBcf
    \/ CalcProportionDistMatrix
    \/ HierarchicalClustering
    \/ GetClusterMembers
    \/ PoolStart
    \/ \E w \in 1..MaxProcesses : w \in DOMAIN pool.state /\ WorkerRun(w)
    \/ StarmapReturn
    \/ StarmapRaise
    \/ CalculateBootstrapValues
    \/ PlotDendro
    \/ CollapseClusters
    \/ CollapseTopLvlClusters
    \/ PrintClusterNames

Spec == Init /\ [][Next]_vars

(***************************************************************************)
(* The functions on their own: get_cluster_members, collapse_clusters and  *)
(* collapse_top_lvl_clusters applied to every merge tree of at most        *)
(* MaxLeaves samples, every support vector with entries k/SupportDen on    *)
(* the merge nodes and 0 on the leaves, and every threshold of Thresholds. *)
(***************************************************************************)
RECURSIVE MergeSequences(_, _, _)
\* the sequences of `remaining` merge records from the clusters `active`:
\* each record is the pair of ids merged, the smaller first as linkage
\* writes them, and the merged cluster gets the id next_id
MergeSequences(active, next_id, remaining) ==
    IF remaining = 0 THEN {<<>>}
    ELSE UNION {
            {<<p>> \o rest :
                rest \in MergeSequences((active \ {p[1], p[2]}) \cup {next_id},
                                        next_id + 1, remaining - 1)} :
            p \in {r \in active \X active : r[1] < r[2]}}

MergeTrees(n_samples) ==
    {ZeroBased(z) : z \in MergeSequences(0..(n_samples - 1), n_samples, n_samples - 1)}

SupportVectors(n_samples) ==
    {[x \in 0..(2 * n_samples - 2) |->
        IF x < n_samples THEN Frac(0, SupportDen) ELSE Frac(k[x], SupportDen)] :
     k \in [n_samples..(2 * n_samples - 2) -> 0..SupportDen]}

Thresholds == {Frac(0, 1), Frac(1, 2), DefaultThreshold, Frac(1, 1)}

FnInit ==
    /\ pc = "fn_start"
    /\ \E n_samples \in 2..MaxLeaves :
          /\ samples = [x \in 0..(n_samples - 1) |-> x]
          /\ hclust_out \in MergeTrees(n_samples)
          /\ bootstrap_values \in SupportVectors(n_samples)
    /\ args \in [min_snvs_for_cluster : {DefaultMinSnvs},
                 max_prop_missing : {DefaultMaxPropMissing},
                 n_bootstrap : {SupportDen},
                 bootstrap_threshold : Thresholds,
                 processes : {1}]
    /\ genotype_matrix = <<>>
    /\ differences = <<>>
    /\ prop_diff_matrix = <<>>
    /\ original_clusters = <<>>
    /\ pool = NoPool
    /\ bootstrap_clusters = <<>>
    /\ collapsed_clusters = <<>>
    /\ top_lvl_clusters = <<>>
    /\ figure_saved = FALSE

FnGetClusterMembers ==
    /\ pc = "fn_start"
    /\ original_clusters' = get_cluster_members(hclust_out, Size(samples))
    /\ pc' = "fn_members"
    /\ UNCHANGED <<args, genotype_matrix, samples, differences, prop_diff_matrix,
                   hclust_out, pool, bootstrap_clusters, bootstrap_values,
                   collapsed_clusters, top_lvl_clusters, figure_saved>>

FnCollapseClusters ==
    /\ pc = "fn_members"
    /\ LET r == collapse_clusters(original_clusters, bootstrap_values,
                                  args.bootstrap_threshold)
       IN  /\ collapsed_clusters' = r.clusters
           /\ pc' = IF r.raised THEN "fn_error" ELSE "fn_collapsed"
    /\ UNCHANGED <<args, genotype_matrix, samples, differences, prop_diff_matrix,
                   hclust_out, original_clusters, pool, bootstrap_clusters,
                   bootstrap_values, top_lvl_clusters, figure_saved>>

FnCollapseTopLvlClusters ==
    /\ pc = "fn_collapsed"
    /\ top_lvl_clusters' = collapse_top_lvl_clusters(hclust_out, bootstrap_values,
                                                     args.bootstrap_threshold)
    /\ pc' = "fn_done"
    /\ UNCHANGED <<args, genotype_matrix, samples, differences, prop_diff_matrix,
                   hclust_out, original_clusters, pool, bootstrap_clusters,
                   bootstrap_values, collapsed_clusters, figure_saved>>

FnNext ==
    \/ FnGetClusterMembers
    \/ FnCollapseClusters
    \/ FnCollapseTopLvlClusters

FnSpec == FnInit /\ [][FnNext]_vars

(***************************************************************************)
(* The historical variant: collapse_clusters of vcfToMatrix_2.py           *)
(***************************************************************************)
NOT_A_CLUSTER == -4         \* 'not a cluster'

DefaultThreshold_2 == Frac(95, 100)

\* vcfToMatrix_2.py lines 253-257
find_parent_node_2(node_id, true_clusters) ==
    LET hits == {i \in (node_id + 1)..(Size(true_clusters) - 1) :
                    Head(true_clusters[node_id]) \in Range(true_clusters[i])}
    IN  IF hits = {} THEN NONE ELSE Min(hits)

\* vcfToMatrix_2.py lines 259-265, the parent being in parent_dict
is_parent_a_cluster(parent_dict, node_id, true_clusters) ==
    LET parent_node == find_parent_node_2(node_id, true_clusters)
    IN  parent_dict[parent_node] # NOT_A_CLUSTER /\ parent_node # NONE

\* vcfToMatrix_2.py lines 237-248: the four conditions in their order, and
\* the raise of the final else
Verdict_2(parent_dict, cluster_num, true_clusters, my_bootstrap, threshold) ==
    LET parent_is_cluster == is_parent_a_cluster(parent_dict, cluster_num, true_clusters)
        above == ~FracLe(my_bootstrap, threshold)       \* my_bootstrap > threshold
        below == ~FracGe(my_bootstrap, threshold)       \* my_bootstrap < threshold
        inherited == parent_dict[find_parent_node_2(cluster_num, true_clusters)]
    IN  IF above /\ ~parent_is_cluster THEN [raised |-> FALSE, value |-> NOT_A_CLUSTER]
        ELSE IF above /\ parent_is_cluster THEN [raised |-> FALSE, value |-> inherited]
        ELSE IF below /\ ~parent_is_cluster THEN [raised |-> FALSE, value |-> cluster_num]
        ELSE IF below /\ parent_is_cluster THEN [raised |-> FALSE, value |-> inherited]
        ELSE [raised |-> TRUE, value |-> NOT_A_CLUSTER]

RECURSIVE CollapseLoop_2(_, _, _, _, _)
\* the loop of vcfToMatrix_2.py lines 236-248; raised is "parent" for the
\* ValueError of line 267 and "criteria" for the one of line 248
CollapseLoop_2(true_clusters, bootstrap_vals, threshold, cluster_num, parent_dict) ==
    IF cluster_num < 0 THEN [raised |-> "no", parent_dict |-> parent_dict]
    ELSE IF find_parent_node_2(cluster_num, true_clusters) \notin DOMAIN parent_dict
    THEN [raised |-> "parent", parent_dict |-> parent_dict]
    ELSE LET v == Verdict_2(parent_dict, cluster_num, true_clusters,
                            bootstrap_vals[cluster_num], threshold)
         IN  IF v.raised THEN [raised |-> "criteria", parent_dict |-> parent_dict]
             ELSE CollapseLoop_2(true_clusters, bootstrap_vals, threshold,
                                 cluster_num - 1, (cluster_num :> v.value) @@ parent_dict)

\* vcfToMatrix_2.py lines 233-251
collapse_clusters_2(true_clusters, bootstrap_vals, threshold) ==
    LET walk == CollapseLoop_2(true_clusters, bootstrap_vals, threshold,
                               Size(bootstrap_vals) - 1, (NONE :> NOT_A_CLUSTER))
        clusters == SortedSeqOf(Range(walk.parent_dict) \ {NOT_A_CLUSTER})
    IN  [raised |-> walk.raised,
         clusters |-> IF walk.raised # "no" THEN <<>>
                      ELSE [k \in DOMAIN clusters |-> true_clusters[clusters[k]]]]

\* support vectors as calculate_bootstrap_values of vcfToMatrix_2.py makes
\* them (every leaf scored, so 1) and with leaves at 0
SupportVectors_2(n_samples) ==
    {[x \in 0..(2 * n_samples - 2) |->
        IF x < n_samples THEN Frac(leaf, SupportDen) ELSE Frac(k[x], SupportDen)] :
     k \in [n_samples..(2 * n_samples - 2) -> 0..SupportDen], leaf \in {0, SupportDen}}

Thresholds_2 == Thresholds \cup {DefaultThreshold_2}

HistInit ==
    /\ pc = "fn_start"
    /\ \E n_samples \in 2..MaxLeaves :
          /\ samples = [x \in 0..(n_samples - 1) |-> x]
          /\ hclust_out \in MergeTrees(n_samples)
          /\ bootstrap_values \in SupportVectors_2(n_samples)
    /\ args \in [min_snvs_for_cluster : {DefaultMinSnvs},
                 max_prop_missing : {DefaultMaxPropMissing},
                 n_bootstrap : {SupportDen},
                 bootstrap_threshold : Thresholds_2,
                 processes : {1}]
    /\ genotype_matrix = <<>>
    /\ differences = <<>>
    /\ prop_diff_matrix = <<>>
    /\ original_clusters = <<>>
    /\ pool = NoPool
    /\ bootstrap_clusters = <<>>
    /\ collapsed_clusters = <<>>
    /\ top_lvl_clusters = <<>>
    /\ figure_saved = FALSE

HistCollapseClusters ==
    /\ pc = "fn_members"
    /\ LET r == collapse_clusters_2(original_clusters, bootstrap_values,
                                    args.bootstrap_threshold)
       IN  /\ collapsed_clusters' = r.clusters
           /\ pc' = CASE r.raised = "no" -> "hist_collapsed"
                      [] r.raised = "parent" -> "hist_error_parent"
                      [] r.raised = "criteria" -> "hist_error_criteria"
    /\ UNCHANGED <<args, genotype_matrix, samples, differences, prop_diff_matrix,
                   hclust_out, original_clusters, pool, bootstrap_clusters,
                   bootstrap_values, top_lvl_clusters, figure_saved>>

HistNext ==
    \/ FnGetClusterMembers
    \/ HistCollapseClusters

HistSpec == HistInit /\ [][HistNext]_vars

(***************************************************************************)
(* Properties                                                              *)
(***************************************************************************)
NSamples == Size(samples)

SampleSet == 0..(NSamples - 1)

\* every position of the member list holds another sample
NoRepeat(list) == Cardinality(Range(list)) = Len(list)

\* the groups are pairwise disjoint, without repeats, and cover exactly S
IsPartition(groups, S) ==
    /\ \A k \in DOMAIN groups : NoRepeat(groups[k]) /\ groups[k] # <<>>
    /\ \A k, m \in DOMAIN groups : k # m => Range(groups[k]) \cap Range(groups[m]) = {}
    /\ AllMembers(groups) = S

FnCollapsed == pc \in {"fn_collapsed", "fn_done"}

\* C1: collapse_clusters returns a partition of the samples 0..S-1, for
\* every tree, support vector and threshold in [0,1], 0 and 1 included.
C1_CollapseIsPartition ==
    FnCollapsed => IsPartition(collapsed_clusters, SampleSet)

\* the tree and the supports of the 4-sample scenario
Scenario4 ==
    /\ NSamples = 4
    /\ Size(original_clusters) = 7
    /\ original_clusters[4] = <<0, 1>>
    /\ original_clusters[5] = <<2, 3>>
    /\ original_clusters[6] = <<0, 1, 2, 3>>
    /\ args.bootstrap_threshold = DefaultThreshold
    /\ bootstrap_values[6].num = bootstrap_values[6].den
    /\ 2 * bootstrap_values[4].num = bootstrap_values[4].den
    /\ bootstrap_values[5].num = bootstrap_values[5].den

\* C2 as stated: in the scenario collapse_clusters returns exactly the two
\* clusters {A,B} and {C,D}.
C2_ScenarioTwoClusters ==
    (FnCollapsed /\ Scenario4) =>
        /\ Len(collapsed_clusters) = 2
        /\ Range(collapsed_clusters) = {<<0, 1>>, <<2, 3>>}

\* C2 amended: in the scenario collapse_clusters returns exactly the three
\* clusters {A,B}, {C} and {D}: {C,D} meets the threshold, so it is a fork
\* and each of its leaves becomes a cluster.
C2_ScenarioThreeClusters ==
    (FnCollapsed /\ Scenario4) =>
        /\ Len(collapsed_clusters) = 3
        /\ Range(collapsed_clusters) = {<<0, 1>>, <<2>>, <<3>>}

C2_Witness == pc = "fn_collapsed" /\ Scenario4

SameValue(a, b) == a.num * b.den = b.num * a.den

\* C3: a support equal to the threshold meets it, in both functions: under a
\* fork parent such a node is a fork (its member list is not a returned
\* cluster), and a root of that support gives the two groups.
C3_EqualMeetsThreshold ==
    /\ pc = "fn_collapsed" =>
          LET parent_dict == CollapseVerdicts(original_clusters, bootstrap_values,
                                              args.bootstrap_threshold).parent_dict
          IN  \A n \in DOMAIN original_clusters :
                  (/\ SameValue(bootstrap_values[n], args.bootstrap_threshold)
                   /\ parent_dict[find_parent_node(n, original_clusters)] = FORK)
                      => /\ parent_dict[n] = FORK
                         /\ original_clusters[n] \notin Range(collapsed_clusters)
    /\ pc = "fn_done" =>
          (SameValue(bootstrap_values[Size(bootstrap_values) - 1],
                     args.bootstrap_threshold)
              => Len(top_lvl_clusters) = 2)

C3_Witness ==
    /\ pc = "fn_done"
    /\ args.bootstrap_threshold = Frac(1, 2)
    /\ SameValue(bootstrap_values[Size(bootstrap_values) - 1], args.bootstrap_threshold)
    /\ \E n \in DOMAIN original_clusters :
          /\ n < Size(original_clusters) - 1
          /\ SameValue(bootstrap_values[n], args.bootstrap_threshold)

HasValues == Size(bootstrap_values) > 0

\* the replicates whose collection holds a member list with the members of `cluster`
Reproducing(cluster) ==
    {b \in DOMAIN bootstrap_clusters :
        \E j \in DOMAIN bootstrap_clusters[b] :
            Range(bootstrap_clusters[b][j]) = Range(cluster)}

IsAscending(list) == \A k \in 1..(Len(list) - 1) : list[k] < list[k + 1]

\* C5: get_cluster_members returns 2S-1 sorted member lists, the leaves
\* singletons, each merge node the disjoint union of its two children.
C5_MembersAreDisjointUnions ==
    pc = "fn_members" =>                \* the state get_cluster_members returns in
        /\ DOMAIN original_clusters = 0..(2 * NSamples - 2)
        /\ \A x \in SampleSet : original_clusters[x] = <<x>>
        /\ \A i \in DOMAIN hclust_out :
              LET node == original_clusters[NSamples + i]
                  left == original_clusters[hclust_out[i][1]]
                  right == original_clusters[hclust_out[i][2]]
              IN  /\ IsAscending(node)
                  /\ Range(node) = Range(left) \cup Range(right)
                  /\ Range(left) \cap Range(right) = {}
                  /\ Len(node) = Len(left) + Len(right)

C5_Witness ==
    /\ pc = "fn_members"
    /\ NSamples = 4
    /\ hclust_out[2][1] >= NSamples
    /\ hclust_out[2][2] >= NSamples

\* C6: collapse_top_lvl_clusters returns a partition of 0..S-1: the member
\* sets of the root's two children when the root's support meets the
\* threshold, and otherwise the one group 0..S-1.
C6_TopLvlIsPartition ==
    pc = "fn_done" =>
        LET root == hclust_out[Size(hclust_out) - 1]
        IN  /\ IsPartition(top_lvl_clusters, SampleSet)
            /\ IF FracGe(bootstrap_values[Size(bootstrap_values) - 1],
                         args.bootstrap_threshold)
               THEN /\ Len(top_lvl_clusters) = 2
                    /\ Range(top_lvl_clusters) =
                          {original_clusters[root[1]], original_clusters[root[2]]}
               ELSE top_lvl_clusters = <<SortedSeqOf(SampleSet)>>

\* C7: the clustering step is never reached with a distance matrix that has
\* an undefined entry: the run is in an error state before.
C7_NoUndefinedReachesClustering ==
    pc = "hclust" => ~HasUndefined(prop_diff_matrix)

\* C8: when filtering leaves no sample, one sample or no locus, the run
\* aborts in get_diff_matrix_from_bcf and no later stage is executed.
C8_InsufficientDataAborts ==
    pc \in {"dist", "hclust", "members", "bootstrap", "starmap", "values", "plot",
            "collapse", "top_lvl", "print", "done", "error_hclust",
            "error_bootstrap", "error_collapse", "error_print"}
        => (NSamples >= 2 /\ Size(differences) >= 1)

\* replicate i as a function of its index and the tensor alone
Replicate(i) == get_one_bootstrap_cluster_members(differences, NSamples, RngSeed(i))

\* C9: whatever the worker count and the assignment of replicates to
\* workers, the result at position i is the one replicate index i and the
\* tensor determine, and so is the support vector.
C9_ResultsIndependentOfWorkers ==
    /\ pc = "error_bootstrap" =>        \* the results there were at the failure
          \A i \in DOMAIN pool.results :
              /\ pool.results[i].status = "done" =>
                    (~Replicate(i).raised
                        /\ pool.results[i].clusters = Replicate(i).clusters)
              /\ pool.results[i].status = "raised" => Replicate(i).raised
    /\ pc = "values" =>                 \* the list starmap returned
          /\ DOMAIN bootstrap_clusters = 0..(args.n_bootstrap - 1)
          /\ \A i \in DOMAIN bootstrap_clusters :
                bootstrap_clusters[i] = Replicate(i).clusters
    /\ pc = "plot" =>                   \* the support vector made from it
          bootstrap_values =
              calculate_bootstrap_values(original_clusters,
                  [i \in 0..(args.n_bootstrap - 1) |-> Replicate(i).clusters])

\* worker 2 ran replicate 0 and worker 1 ran replicate 1, with different results
C9_Witness ==
    /\ pc = "starmap"
    /\ args.processes = 2
    /\ args.n_bootstrap = 2
    /\ StarmapComplete(pool.results)
    /\ pool.state[2] = Replicate(0).state
    /\ pool.state[1] = Replicate(1).state
    /\ pool.state[1] # pool.state[2]
    /\ pool.results[0].clusters # pool.results[1].clusters

AfterBootstrap == pc \in {"values", "plot", "collapse", "top_lvl", "print", "done",
                          "error_collapse", "error_print"}

\* C10: the support calculation starts only with the full list of the N
\* replicate results, and a replicate that fails aborts the run: no support
\* vector, partition or figure is made from the results there are.
C10_NoPartialResults ==
    /\ AfterBootstrap =>
          /\ DOMAIN bootstrap_clusters = 0..(args.n_bootstrap - 1)
          /\ \A i \in DOMAIN bootstrap_clusters :
                DOMAIN bootstrap_clusters[i] = 0..(2 * NSamples - 2)
    /\ (pc \in {"starmap", "error_bootstrap"}) =>
          /\ Size(bootstrap_clusters) = 0
          /\ Size(bootstrap_values) = 0
          /\ Size(collapsed_clusters) = 0
          /\ Size(top_lvl_clusters) = 0
          /\ ~figure_saved

\* the run aborted with one replicate done and another one failed
C10_Witness ==
    /\ pc = "error_bootstrap"
    /\ \E i \in DOMAIN pool.results : pool.results[i].status = "done"
    /\ \E i \in DOMAIN pool.results : pool.results[i].status = "raised"

\* the parent of node n in the merge tree hclust_out: the merge record that
\* names n as a child; NONE for the root
TreeParent(n) ==
    LET recs == {i \in DOMAIN hclust_out : n \in {hclust_out[i][1], hclust_out[i][2]}}
    IN  IF recs = {} THEN NONE ELSE NSamples + (CHOOSE i \in recs : TRUE)

RECURSIVE ProperAncestors(_)
ProperAncestors(n) ==
    LET parent_node == TreeParent(n)
    IN  IF parent_node = NONE THEN {} ELSE {parent_node} \cup ProperAncestors(parent_node)

BelowThreshold(n) == ~FracGe(bootstrap_values[n], args.bootstrap_threshold)

\* the nodes that miss the threshold while every proper ancestor meets it
Boundaries ==
    {n \in DOMAIN original_clusters :
        /\ BelowThreshold(n)
        /\ \A a \in ProperAncestors(n) : ~BelowThreshold(a)}

\* C11: collapse_clusters returns exactly the member lists of the nodes whose
\* support is below tau while every proper ancestor's support is >= tau, each
\* once; no returned node is a descendant of another returned node.
C11_OutputIsTopmostFailingNodes ==
    pc = "fn_collapsed" =>              \* the state collapse_clusters returns in
        LET expected == Boundaries
        IN  /\ Range(collapsed_clusters) = {original_clusters[n] : n \in expected}
            /\ Len(collapsed_clusters) = Cardinality(expected)
            /\ \A n \in expected : ProperAncestors(n) \cap expected = {}

\* a returned cluster has a merge node beneath it whose own support meets the
\* threshold, and one whose own support misses it
C11_Witness ==
    /\ pc = "fn_collapsed"
    /\ \E n \in Boundaries :
          /\ original_clusters[n] \in Range(collapsed_clusters)
          /\ \E m \in DOMAIN original_clusters :
                /\ m >= NSamples /\ n \in ProperAncestors(m) /\ ~BelowThreshold(m)
          /\ \E m \in DOMAIN original_clusters :
                /\ m >= NSamples /\ n \in ProperAncestors(m) /\ BelowThreshold(m)

\* C12: in collapse_clusters of vcfToMatrix_2.py the final else branch, which
\* raises "did not meet any criteria", is never taken, whatever the tree, the
\* support vector and the threshold.
C12_ElseBranchUnreachable == pc # "hist_error_criteria"

\* C13: in the walk of collapse_clusters, find_parent_node gives for every
\* node its parent in the merge tree ('none' for the root), the parent has a
\* larger id and so has its verdict already, and the "Parent node not found"
\* error is never raised.
C13_ParentIsFoundAndJudged ==
    /\ pc # "fn_error"
    /\ pc = "fn_members" =>             \* the table the walk is given
          \A n \in DOMAIN original_clusters :
              LET parent_node == find_parent_node(n, original_clusters)
              IN  /\ parent_node = TreeParent(n)
                  /\ IF n = Size(original_clusters) - 1
                     THEN parent_node = NONE
                     ELSE parent_node \in DOMAIN original_clusters /\ parent_node > n

\* the walk is over for a tree in which a merge node's parent is not the
\* node of the next id
C13_Witness ==
    /\ pc = "fn_collapsed"
    /\ \E n \in DOMAIN original_clusters :
          /\ n >= NSamples
          /\ TreeParent(n) # NONE
          /\ TreeParent(n) > n + 1

RootId == Size(original_clusters) - 1

\* C14: the canonical root's support is exactly 1, since every replicate's
\* last member list is the full sample set; so for every tau <= 1 the root is
\* a fork in collapse_clusters and collapse_top_lvl_clusters gives two groups.
C14_RootSupportIsOne ==
    /\ pc = "values" =>
          \A b \in DOMAIN bootstrap_clusters :
              /\ bootstrap_clusters[b][RootId] = SortedSeqOf(SampleSet)
              /\ bootstrap_clusters[b][RootId] = original_clusters[RootId]
    /\ HasValues =>
          /\ args.n_bootstrap >= 1 /\ NSamples >= 2
          /\ bootstrap_values[RootId].num = bootstrap_values[RootId].den
          /\ bootstrap_values[RootId].den = args.n_bootstrap
          /\ \A tau \in Thresholds :
                /\ TopLvlSplits(bootstrap_values, tau)
                /\ Verdict((NONE :> FORK), RootId, original_clusters,
                           bootstrap_values[RootId], tau) = FORK
    /\ pc \in {"top_lvl", "print", "done", "error_print"} =>
          original_clusters[RootId] \notin Range(collapsed_clusters)
    /\ pc \in {"print", "done", "error_print"} =>
          /\ Len(top_lvl_clusters) = 2
          /\ IsPartition(top_lvl_clusters, SampleSet)

\* a finished run in which the root has support 1 and another merge node has not
C14_Witness ==
    /\ pc = "done"
    /\ bootstrap_values[RootId].num = bootstrap_values[RootId].den
    /\ Len(top_lvl_clusters) = 2
    /\ \E n \in NSamples..(RootId - 1) :
          bootstrap_values[n].num < bootstrap_values[n].den

=============================================================================
